---- MODULE Spec2Model ----
(***************************************************************************)
(* SafeSnap frontend: the session lifecycle (AuthProvider, the Gateway     *)
(* client's 401 interceptor, the route guards) and the multi-file upload   *)
(* workflow of CreateIncidentPage.                                         *)
(***************************************************************************)
EXTENDS Integers, Sequences, FiniteSets, TLC

VARIABLES
  localStorage,     \* the browser's durable key-value store (a function on the keys present)
  user,             \* AuthProvider state: the in-memory user object, or Null
  isLoading,        \* AuthProvider state: TRUE until the restore effect has run
  isAuthenticated,  \* the context value computed at AuthProvider's last render
  path,             \* the router's current location
  reloading,        \* window.location.href was assigned; the document is about to be replaced
  lastOp,           \* the operation performed last
  lastLogin,        \* the identity passed to login() and still persisted untouched, or Null
  rejectedOp,       \* the Gateway call whose 401 was handled last, NoOp once a session is written
  uploadedImages,   \* CreateIncidentPage state: the image URLs, in order of completion
  uploadedAudio,    \* CreateIncidentPage state: the audio URLs
  isUploading,      \* CreateIncidentPage state: the global uploading flag
  rootError,        \* the form's root error message, or NoError
  files,            \* the FileList of the running handleFileUpload call
  uploadType,       \* its type argument: "image" or "audio"
  fileIndex,        \* its loop index (1-based)
  pc,               \* where the call is suspended: "idle", "grant" or "transfer"
  grant,            \* the grant destructured for the current file
  taskState,        \* per file of the batch: "pending", "uploaded" or "failed"
  setErrorCalls,    \* how many times the running batch has set the root error
  lastRemove,       \* the entry a remove button click was on, while that click is the last step
  grantRequest,     \* the body of the grant request the running batch issued last
  payload,          \* the URL lists onSubmit handed to the mutation, while that is the last step
  isPending,        \* createIncidentMutation.isPending
  restoreBranch,    \* the branches the last two runs of the restore effect took
  loginCall,        \* the form data and backend response of the login that wrote the session
  inflight,         \* the Gateway request that is out or awaits its retry, or NoRequest
  delivered,        \* what the caller of the last Gateway request received, or NoOutcome
  rcaSuggestions,   \* IncidentDetailPage: the cached data of the rca-suggestions query
  lastRca,          \* the RCA request issued last, with the user and status it was issued under
  tokenExpired,     \* the backend no longer accepts the persisted token
  grantCall,        \* the arguments and backend response of a storageApi.getUploadUrl call
  grantResult,      \* the request body and the result of that call
  src,              \* AuthenticatedImage: the src prop
  imageSrc,         \* AuthenticatedImage state: the data URL shown
  loading,          \* AuthenticatedImage state
  error,            \* AuthenticatedImage state
  fetches           \* AuthenticatedImage: the srcs whose fetch is in flight

sessionVars == <<localStorage, user, isLoading, isAuthenticated, path, reloading,
                 lastLogin, loginCall, rejectedOp, restoreBranch>>

gatewayVars == <<inflight, delivered>>

uploadVars == <<uploadedImages, uploadedAudio, isUploading, rootError, files, uploadType,
                fileIndex, pc, grant, taskState, setErrorCalls, lastRemove,
                grantRequest, payload, isPending>>

rcaVars == <<rcaSuggestions, lastRca>>

imageVars == <<src, imageSrc, loading, error, fetches>>

pageVars == <<rcaVars, tokenExpired, grantCall, grantResult, imageVars>>

vars == <<sessionVars, gatewayVars, uploadVars, pageVars, lastOp>>

(***************************************************************************)
(* JavaScript values                                                       *)
(***************************************************************************)
Null == [isNull |-> TRUE]

TOKEN_KEY == "safesnap_token"
USER_KEY == "safesnap_user"

KeyOrder == <<"id", "name", "email", "role">>
Keys == {"id", "name", "email", "role"}

\* a JS object is a function on the properties it has; a missing property reads as undefined
Has(o, k) == k \in DOMAIN o

\* JS truthiness of a property: absent, 0 and "" are falsy
TruthyProp(o, k) ==
  /\ Has(o, k)
  /\ IF k = "id" THEN o[k] # 0 ELSE o[k] # ""

(***************************************************************************)
(* JSON.stringify / JSON.parse of a user object.  A JSON text is modelled  *)
(* by its kind and, for an object, the list of its members in property     *)
(* order, each value written as text (a number as its decimal digits).     *)
(***************************************************************************)
NumText(n) == CASE n = 0 -> "0" [] n = 1 -> "1" [] n = 2 -> "2"
TextNum(t) == CASE t = "0" -> 0 [] t = "1" -> 1 [] t = "2" -> 2

MemberOf(o, k) ==
  [key |-> k,
   type |-> IF k = "id" THEN "number" ELSE "string",
   text |-> IF k = "id" THEN NumText(o[k]) ELSE o[k]]

RECURSIVE Members(_, _)
Members(o, i) ==
  IF i > Len(KeyOrder) THEN <<>>
  ELSE IF Has(o, KeyOrder[i])
       THEN <<MemberOf(o, KeyOrder[i])>> \o Members(o, i + 1)
       ELSE Members(o, i + 1)

\* JSONstringify, were it to leave the name out of the text
JSONstringify_DropsName(o) ==
  [kind |-> "object",
   members |-> SelectSeq(Members(o, 1), LAMBDA m : m.key # "name")]

JSONstringify(o) == [kind |-> "object", members |-> Members(o, 1)]

MemberValue(m) == IF m.type = "number" THEN TextNum(m.text) ELSE m.text

\* defined for texts that parse; a text of kind "garbage" makes JSON.parse throw
JSONparse(text) ==
  IF text.kind = "null" THEN Null
  ELSE LET ms == text.members
           ks == {ms[i].key : i \in DOMAIN ms}
       IN [k \in ks |-> MemberValue(ms[CHOOSE i \in DOMAIN ms : ms[i].key = k])]

ParseThrows(text) == text.kind = "garbage"

(***************************************************************************)
(* localStorage                                                            *)
(***************************************************************************)
hasItem(store, k) == k \in DOMAIN store

removeItem(store, k) == [x \in (DOMAIN store) \ {k} |-> store[x]]

setItem(store, k, v) == [x \in (DOMAIN store) \cup {k} |-> IF x = k THEN v ELSE store[x]]

\* getItem(k) is truthy: the entry is present and is not the empty string
TruthyItem(store, k) ==
  /\ hasItem(store, k)
  /\ IF k = TOKEN_KEY THEN store[k] # "" ELSE store[k].kind # "empty"

(***************************************************************************)
(* Values the model draws from                                             *)
(***************************************************************************)
MaxId == 1                       \* persisted user ids range over 0..MaxId
Undefined == "<undefined>"       \* marks a property left out of an object
NoNum == 0 - 1                   \* marks an id left out of an object
FABRICATED_ID == 1               \* the id authApi.login / register make up

Tokens == {"T1", "T2"}
Roles == {"WORKER", "MANAGER"}
LoginEmails == {"a@x.com", "b@y.org"}
RegisterNames == {"Al"}
GatewayOps == {"login", "getMyIncidents", "getUploadUrl"}
NoOp == "<none>"

Obj(i, n, e, r) ==
  LET ks == {k \in Keys : CASE k = "id" -> i # NoNum
                            [] k = "name" -> n # Undefined
                            [] k = "email" -> e # Undefined
                            [] OTHER -> r # Undefined}
  IN [k \in ks |-> CASE k = "id" -> i
                     [] k = "name" -> n
                     [] k = "email" -> e
                     [] OTHER -> r]

\* what may be found under safesnap_user at startup: objects having any subset of the
\* properties, and texts that are empty, are not JSON, or are the JSON null
StoredObjects ==
  {Obj(i, n, e, r) : i \in {NoNum} \cup (0..MaxId), n \in {Undefined, "a"},
                     e \in {Undefined, "a@x.com"}, r \in {Undefined} \cup Roles}

StoredUserTexts ==
  {JSONstringify(o) : o \in StoredObjects}
    \cup {[kind |-> k, members |-> <<>>] : k \in {"empty", "garbage", "null"}}

InitialStores ==
  LET none == [k \in {} |-> ""]
      withToken == {none} \cup {setItem(none, TOKEN_KEY, t) : t \in {"", "T1"}}
  IN withToken \cup {setItem(s, USER_KEY, b) : s \in withToken, b \in StoredUserTexts}

Paths == {"/login", "/worker", "/worker/incidents/new", "/worker/incidents/:id",
          "/worker/incidents/:id/edit", "/manager", "/manager/incidents/:id",
          "/", "/no-such-page"}

(***************************************************************************)
(* JavaScript strings.  The string operations of the code work on the      *)
(* characters; Chars gives the characters of each string the model uses    *)
(* and Str is its inverse.                                                 *)
(***************************************************************************)
Chars(s) ==
  CASE s = "" -> <<>>
    [] s = "a@x.com" -> <<"a", "@", "x", ".", "c", "o", "m">>
    [] s = "b@y.org" -> <<"b", "@", "y", ".", "o", "r", "g">>
    [] s = "a" -> <<"a">>
    [] s = "b" -> <<"b">>
    [] s = "photo.JPG" -> <<"p", "h", "o", "t", "o", ".", "J", "P", "G">>
    [] s = "memo.mp3" -> <<"m", "e", "m", "o", ".", "m", "p", "3">>
    [] s = "JPG" -> <<"J", "P", "G">>
    [] s = "jpg" -> <<"j", "p", "g">>
    [] s = "mp3" -> <<"m", "p", "3">>
    [] s = "image/jpeg" -> <<"i", "m", "a", "g", "e", "/", "j", "p", "e", "g">>
    [] s = "audio/mpeg" -> <<"a", "u", "d", "i", "o", "/", "m", "p", "e", "g">>
    [] s = "image/" -> <<"i", "m", "a", "g", "e", "/">>
    [] s = "README" -> <<"R", "E", "A", "D", "M", "E">>
    [] s = "readme" -> <<"r", "e", "a", "d", "m", "e">>
    [] s = "a.tar.GZ" -> <<"a", ".", "t", "a", "r", ".", "G", "Z">>
    [] s = "GZ" -> <<"G", "Z">>
    [] s = "gz" -> <<"g", "z">>
    [] s = "notes." -> <<"n", "o", "t", "e", "s", ".">>

Strings == {"", "a@x.com", "b@y.org", "a", "b", "photo.JPG", "memo.mp3", "JPG", "jpg",
            "mp3", "image/jpeg", "audio/mpeg", "image/", "README", "readme", "a.tar.GZ",
            "GZ", "gz", "notes."}

Str(cs) == CHOOSE s \in Strings : Chars(s) = cs

\* s.split(sep): the segments between the occurrences of sep
RECURSIVE split(_, _)
split(cs, sep) ==
  IF \A i \in DOMAIN cs : cs[i] # sep THEN <<cs>>
  ELSE LET i == CHOOSE k \in DOMAIN cs : cs[k] = sep /\ \A j \in 1..(k - 1) : cs[j] # sep
       IN <<SubSeq(cs, 1, i - 1)>> \o split(SubSeq(cs, i + 1, Len(cs)), sep)

\* array.pop(): the last element
pop(segments) == segments[Len(segments)]

LowerChar(c) ==
  CASE c = "J" -> "j" [] c = "P" -> "p" [] c = "G" -> "g" [] c = "Z" -> "z"
    [] c = "R" -> "r" [] c = "E" -> "e" [] c = "A" -> "a" [] c = "D" -> "d"
    [] c = "M" -> "m" [] OTHER -> c

toLowerCase(cs) == [i \in DOMAIN cs |-> LowerChar(cs[i])]

startsWith(cs, prefix) ==
  Len(cs) >= Len(prefix) /\ SubSeq(cs, 1, Len(prefix)) = prefix

(***************************************************************************)
(* authApi: the identity built from a successful login / register response *)
(***************************************************************************)
\* LocalPart, were the whole address taken for the name
LocalPart_WholeEmail(email) == email

\* email.split('@')[0]
LocalPart(email) == Str(split(Chars(email), "@")[1])

NoCall == [data |-> [email |-> ""], response |-> [token |-> "", role |-> ""]]

authApiLogin(data, response) ==
  [token |-> response.token,
   user |-> Obj(FABRICATED_ID, LocalPart(data.email), data.email, response.role)]

authApiRegister(data, response) ==
  [token |-> response.token,
   user |-> Obj(FABRICATED_ID, data.name, data.email, response.role)]

(***************************************************************************)
(* AuthProvider                                                            *)
(***************************************************************************)
\* the expression of value.isAuthenticated, evaluated when AuthProvider renders
IsAuthenticatedExpr(u, store) == u # Null /\ TruthyItem(store, TOKEN_KEY)

purge(store) == removeItem(removeItem(store, TOKEN_KEY), USER_KEY)

\* the user data the mount effect accepts
ValidUserData(text) ==
  /\ text.kind = "object"
  /\ LET userData == JSONparse(text)
     IN TruthyProp(userData, "id") /\ TruthyProp(userData, "email")
          /\ TruthyProp(userData, "role")

\* the branch the mount effect takes on store
RestoreBranch(store) ==
  IF ~(TruthyItem(store, TOKEN_KEY) /\ TruthyItem(store, USER_KEY)) THEN "skipped"
  ELSE IF ParseThrows(store[USER_KEY]) THEN "parseFailed"
  ELSE IF ValidUserData(store[USER_KEY]) THEN "restored"
  ELSE "invalid"

\* restore, were its catch block to leave the entries in place
restore_CatchKeepsEntries ==
  /\ isLoading
  /\ IF RestoreBranch(localStorage) = "restored"
     THEN user' = JSONparse(localStorage[USER_KEY])
     ELSE UNCHANGED user
  /\ IF RestoreBranch(localStorage) = "invalid"
     THEN localStorage' = purge(localStorage) /\ lastLogin' = Null /\ loginCall' = NoCall
     ELSE UNCHANGED <<localStorage, lastLogin, loginCall>>
  /\ isLoading' = FALSE
  /\ isAuthenticated' = IsAuthenticatedExpr(user', localStorage')
  /\ restoreBranch' = <<restoreBranch[2], RestoreBranch(localStorage)>>
  /\ lastOp' = "restore"
  /\ UNCHANGED <<path, reloading, rejectedOp>>
  /\ UNCHANGED <<gatewayVars, uploadVars, pageVars>>

\* the mount effect: restore the persisted session
restore ==
  /\ isLoading
  /\ IF TruthyItem(localStorage, TOKEN_KEY) /\ TruthyItem(localStorage, USER_KEY)
     THEN IF ~ParseThrows(localStorage[USER_KEY]) /\ ValidUserData(localStorage[USER_KEY])
          THEN /\ user' = JSONparse(localStorage[USER_KEY])
               /\ UNCHANGED <<localStorage, lastLogin, loginCall>>
          ELSE /\ localStorage' = purge(localStorage)
               /\ lastLogin' = Null
               /\ loginCall' = NoCall
               /\ UNCHANGED user
     ELSE UNCHANGED <<localStorage, user, lastLogin, loginCall>>
  /\ isLoading' = FALSE
  /\ isAuthenticated' = IsAuthenticatedExpr(user', localStorage')
  /\ restoreBranch' = <<restoreBranch[2], RestoreBranch(localStorage)>>
  /\ lastOp' = "restore"
  /\ UNCHANGED <<path, reloading, rejectedOp>>
  /\ UNCHANGED <<gatewayVars, uploadVars, pageVars>>

\* login, were it to write the token entry alone
login_TokenOnly(token, userData) ==
  /\ localStorage' = setItem(localStorage, TOKEN_KEY, token)
  /\ user' = userData
  /\ isAuthenticated' = IsAuthenticatedExpr(user', localStorage')
  /\ lastLogin' = userData
  /\ rejectedOp' = NoOp
  /\ UNCHANGED <<isLoading, restoreBranch, reloading>>

\* login(token, userData) of the context
login(token, userData) ==
  /\ localStorage' = setItem(setItem(localStorage, TOKEN_KEY, token),
                             USER_KEY, JSONstringify(userData))
  /\ user' = userData
  /\ isAuthenticated' = IsAuthenticatedExpr(user', localStorage')
  /\ lastLogin' = userData
  /\ rejectedOp' = NoOp
  /\ UNCHANGED <<isLoading, restoreBranch, reloading>>

\* logout, were it to leave the persisted user entry behind
logout_KeepsUserEntry ==
  /\ ~isLoading /\ ~reloading
  /\ localStorage' = removeItem(localStorage, TOKEN_KEY)
  /\ user' = Null
  /\ isAuthenticated' = IF user = Null THEN isAuthenticated
                        ELSE IsAuthenticatedExpr(user', localStorage')
  /\ lastLogin' = Null
  /\ loginCall' = NoCall
  /\ lastOp' = "logout"
  /\ UNCHANGED <<isLoading, restoreBranch, path, reloading, rejectedOp>>
  /\ UNCHANGED <<gatewayVars, uploadVars, pageVars>>

\* logout() of the context; setUser(null) re-renders only if the user changes
logout ==
  /\ ~isLoading /\ ~reloading
  /\ localStorage' = purge(localStorage)
  /\ user' = Null
  /\ isAuthenticated' = IF user = Null THEN isAuthenticated
                        ELSE IsAuthenticatedExpr(user', localStorage')
  /\ lastLogin' = Null
  /\ loginCall' = NoCall
  /\ lastOp' = "logout"
  /\ UNCHANGED <<isLoading, restoreBranch, path, reloading, rejectedOp>>
  /\ UNCHANGED <<gatewayVars, uploadVars, pageVars>>

\* authApi.logout: removes the entries and leaves the provider's state alone
authApiLogout ==
  /\ ~isLoading /\ ~reloading
  /\ localStorage' = purge(localStorage)
  /\ lastLogin' = Null
  /\ loginCall' = NoCall
  /\ lastOp' = "authApi.logout"
  /\ UNCHANGED <<user, isLoading, restoreBranch, isAuthenticated, path, reloading, rejectedOp>>
  /\ UNCHANGED <<gatewayVars, uploadVars, pageVars>>

(***************************************************************************)
(* Gateway client: the interceptors, and the query client's retry          *)
(***************************************************************************)
QUERY_RETRY == 1                 \* defaultOptions.queries.retry
DEFAULT_MESSAGE == "An error occurred"

NoHeaders == [h \in {} |-> <<>>]
EmptyData == [k \in {} |-> ""]

\* requestInterceptor, were the token sent without its scheme
requestInterceptor_NoScheme(store) ==
  IF TruthyItem(store, TOKEN_KEY)
  THEN [h \in {"Authorization"} |-> <<store[TOKEN_KEY]>>]
  ELSE NoHeaders

\* the request interceptor: the headers it leaves on the outgoing request
requestInterceptor(store) ==
  IF TruthyItem(store, TOKEN_KEY)
  THEN [h \in {"Authorization"} |-> <<"Bearer ", store[TOKEN_KEY]>>]
  ELSE NoHeaders

\* the calls the pages make: through useQuery, through useMutation, or directly
GatewayCalls ==
  {[op |-> "getMyIncidents", kind |-> "query"],
   [op |-> "createIncident", kind |-> "mutation"],
   [op |-> "fileExists", kind |-> "direct"]}

\* a response as the response interceptor sees it.  status 0: no response arrived
\* (error.response is undefined); hasBody: response.data is truthy (axios gives ""
\* for an empty body); data: the properties of the body
ErrorBodies ==
  {EmptyData}
    \cup {[k \in {"message"} |-> m] : m \in {"", "boom"}}
    \cup {[k \in {"retryAfterSeconds"} |-> 30]}
    \cup {[message |-> m, retryAfterSeconds |-> 30] : m \in {"", "boom"}}

Responses ==
  {[status |-> 200, hasBody |-> TRUE, data |-> [k \in {"exists"} |-> e]] : e \in BOOLEAN}
    \cup {[status |-> st, hasBody |-> TRUE, data |-> d] :
            st \in {401, 429, 500}, d \in ErrorBodies}
    \cup {[status |-> st, hasBody |-> FALSE, data |-> EmptyData] : st \in {0, 401, 429, 500}}

StatusText(n) == CASE n = 401 -> "401" [] n = 429 -> "429" [] n = 500 -> "500"

\* `${value}` of a property of the body
TemplateText(data, k) ==
  IF ~Has(data, k) THEN "undefined"
  ELSE IF k = "retryAfterSeconds" THEN (CASE data[k] = 30 -> "30")
  ELSE data[k]

Resolved(data) == [threw |-> FALSE, type |-> "", message |-> <<>>, data |-> data]
Thrown(type, message) ==
  [threw |-> TRUE, type |-> type, message |-> message, data |-> EmptyData]

\* the error axios rejects with, which the interceptor receives
AxiosError(resp) ==
  Thrown("AxiosError",
         IF resp.status = 0 THEN <<"Network Error">>
         ELSE <<"Request failed with status code ", StatusText(resp.status)>>)

\* responseInterceptor, were a 429 thrown like any other API error
responseInterceptor_No429Branch(resp) ==
  IF resp.status \in 200..299 THEN Resolved(resp.data)
  ELSE IF resp.hasBody
       THEN Thrown("Error", <<IF TruthyProp(resp.data, "message") THEN resp.data["message"]
                              ELSE DEFAULT_MESSAGE>>)
  ELSE AxiosError(resp)

\* the response interceptor: what the call resolves with or rejects with (the 401
\* branch's removal of the session is part of ReceiveResponse)
responseInterceptor(resp) ==
  IF resp.status \in 200..299 THEN Resolved(resp.data)
  ELSE IF resp.status = 429
       THEN Thrown("Error", <<"Rate limit exceeded: ", TemplateText(resp.data, "message"),
                             ". Try again in ",
                             TemplateText(resp.data, "retryAfterSeconds"), " seconds.">>)
  ELSE IF resp.hasBody
       THEN Thrown("Error", <<IF TruthyProp(resp.data, "message") THEN resp.data["message"]
                              ELSE DEFAULT_MESSAGE>>)
  ELSE AxiosError(resp)

\* storageApi.fileExists, were it to let the error through
fileExists_Rethrows(outcome) ==
  IF outcome.threw THEN outcome
  ELSE Resolved([k \in {"returned"} |-> outcome.data["exists"]])

\* storageApi.fileExists around the outcome of its GET: the value it returns
fileExists(outcome) ==
  IF outcome.threw THEN Resolved([k \in {"returned"} |-> FALSE])
  ELSE Resolved([k \in {"returned"} |-> outcome.data["exists"]])

\* the query client, were it left at its default of three retries
shouldRetry_DefaultThree(kind, failureCount) == kind = "query" /\ failureCount <= 3

\* whether the query client sends a failed call again: queries only, QUERY_RETRY times
shouldRetry(kind, failureCount) == kind = "query" /\ failureCount <= QUERY_RETRY

NoRequest ==
  [op |-> NoOp, kind |-> "", headers |-> NoHeaders, attempt |-> 0, state |-> "none"]
NoResponse == [status |-> 0 - 1, hasBody |-> FALSE, data |-> EmptyData]
NoOutcome ==
  [op |-> NoOp, kind |-> "", attempts |-> 0, headers |-> NoHeaders,
   response |-> NoResponse, outcome |-> Resolved(EmptyData)]

\* a page issues a Gateway call; the request interceptor runs as it leaves
SendRequest(call) ==
  /\ ~isLoading /\ ~reloading
  /\ inflight = NoRequest
  /\ inflight' = [op |-> call.op, kind |-> call.kind,
                  headers |-> requestInterceptor(localStorage), attempt |-> 1,
                  state |-> "sent"]
  /\ delivered' = NoOutcome
  /\ lastOp' = "request"
  /\ UNCHANGED <<sessionVars, uploadVars, pageVars>>

\* the query client sends a failed query again; the request passes the interceptor anew
RetryRequest ==
  /\ inflight.state = "retryWait"
  /\ inflight' = [inflight EXCEPT !.headers = requestInterceptor(localStorage),
                                  !.attempt = @ + 1, !.state = "sent"]
  /\ lastOp' = "retry"
  /\ UNCHANGED <<sessionVars, uploadVars, pageVars, delivered>>

\* the response interceptor handles the answer to the request that is out: a 401
\* removes the session and sends the document to /login; a failure is kept for a retry
\* or reaches the caller
ReceiveResponse(resp) ==
  /\ inflight.state = "sent"
  /\ LET intercepted == responseInterceptor(resp)
         outcome == IF inflight.op = "fileExists" THEN fileExists(intercepted)
                    ELSE intercepted
     IN IF outcome.threw /\ shouldRetry(inflight.kind, inflight.attempt)
        THEN /\ inflight' = [inflight EXCEPT !.state = "retryWait"]
             /\ UNCHANGED delivered
        ELSE /\ inflight' = NoRequest
             /\ delivered' = [op |-> inflight.op, kind |-> inflight.kind,
                              attempts |-> inflight.attempt,
                              headers |-> inflight.headers,
                              response |-> resp, outcome |-> outcome]
  /\ IF resp.status = 401
     THEN /\ localStorage' = purge(localStorage)
          /\ reloading' = TRUE
          /\ rejectedOp' = inflight.op
          /\ lastLogin' = Null
          /\ loginCall' = NoCall
          /\ UNCHANGED <<user, isLoading, restoreBranch, isAuthenticated, path>>
     ELSE UNCHANGED sessionVars
  /\ lastOp' = "response"
  /\ UNCHANGED <<uploadVars, pageVars>>

\* Response401, were it to remove the token alone
Response401_KeepsUserEntry(op) ==
  /\ ~isLoading
  /\ localStorage' = removeItem(localStorage, TOKEN_KEY)
  /\ reloading' = TRUE
  /\ rejectedOp' = op
  /\ lastLogin' = Null
  /\ loginCall' = NoCall
  /\ lastOp' = "401"
  /\ UNCHANGED <<user, isLoading, restoreBranch, isAuthenticated, path>>
  /\ UNCHANGED <<gatewayVars, uploadVars, pageVars>>

\* a 401 answers the Gateway call op: both entries are removed and the document is
\* sent to /login, which replaces the page once the handler has returned
Response401(op) ==
  /\ ~isLoading
  /\ localStorage' = purge(localStorage)
  /\ reloading' = TRUE
  /\ rejectedOp' = op
  /\ lastLogin' = Null
  /\ loginCall' = NoCall
  /\ lastOp' = "401"
  /\ UNCHANGED <<user, isLoading, restoreBranch, isAuthenticated, path>>
  /\ UNCHANGED <<gatewayVars, uploadVars, pageVars>>

\* a document load (the pending move to /login, or the user reloading the page):
\* AuthProvider is constructed anew and rendered once with its initial state
PageLoad ==
  /\ ~isLoading
  /\ user' = Null
  /\ isLoading' = TRUE
  /\ isAuthenticated' = IsAuthenticatedExpr(user', localStorage)
  /\ path' = IF reloading THEN "/login" ELSE path
  /\ reloading' = FALSE
  /\ lastOp' = "load"
  /\ inflight' = NoRequest
  /\ delivered' = NoOutcome
  /\ rcaSuggestions' = Undefined
  /\ UNCHANGED <<localStorage, lastLogin, loginCall, rejectedOp, restoreBranch>>
  /\ UNCHANGED <<uploadVars, lastRca, tokenExpired, grantCall, grantResult, imageVars>>

(***************************************************************************)
(* Routing                                                                 *)
(***************************************************************************)
NavigateTo(to) == [type |-> "Navigate", to |-> to, page |-> ""]
Content(page) == [type |-> "Content", to |-> "", page |-> page]
Spinner == [type |-> "Loading", to |-> "", page |-> ""]

RoleOf(u) == IF u # Null /\ Has(u, "role") THEN u["role"] ELSE Undefined

HomeOf(u) == IF RoleOf(u) = "MANAGER" THEN "/manager" ELSE "/worker"

\* ProtectedRoute, were it to skip the comparison of roles
ProtectedRoute_NoRoleCheck(page, requiredRole) ==
  IF isLoading THEN Spinner
  ELSE IF ~isAuthenticated \/ user = Null THEN NavigateTo("/login")
  ELSE Content(page)

\* ProtectedRoute, were the session read before the restore has finished
ProtectedRoute_RedirectsWhileLoading(page, requiredRole) ==
  IF ~isAuthenticated \/ user = Null THEN NavigateTo("/login")
  ELSE IF requiredRole # Undefined /\ RoleOf(user) # requiredRole
       THEN NavigateTo(HomeOf(user))
  ELSE Content(page)

\* what <ProtectedRoute requiredRole=...> renders around page
ProtectedRoute(page, requiredRole) ==
  IF isLoading THEN Spinner
  ELSE IF ~isAuthenticated \/ user = Null THEN NavigateTo("/login")
  ELSE IF requiredRole # Undefined /\ RoleOf(user) # requiredRole
       THEN NavigateTo(HomeOf(user))
  ELSE Content(page)

\* the element AppRoutes renders for location p
AppRoutes(p) ==
  CASE p = "/login" ->
         IF ~isAuthenticated THEN Content("LoginPage") ELSE NavigateTo(HomeOf(user))
    [] p = "/worker" -> ProtectedRoute("WorkerDashboard", "WORKER")
    [] p = "/worker/incidents/new" -> ProtectedRoute("CreateIncidentPage", "WORKER")
    [] p = "/worker/incidents/:id" -> ProtectedRoute("IncidentDetailPage", "WORKER")
    [] p = "/worker/incidents/:id/edit" -> ProtectedRoute("EditIncidentPage", "WORKER")
    [] p = "/manager" -> ProtectedRoute("ManagerDashboard", "MANAGER")
    [] p = "/manager/incidents/:id" -> ProtectedRoute("IncidentDetailPage", "MANAGER")
    [] p = "/" ->
         NavigateTo(IF ~isAuthenticated THEN "/login" ELSE HomeOf(user))
    [] OTHER -> NavigateTo("/")

RequiredRole(p) ==
  CASE p \in {"/worker", "/worker/incidents/new", "/worker/incidents/:id",
              "/worker/incidents/:id/edit"} -> "WORKER"
    [] p \in {"/manager", "/manager/incidents/:id"} -> "MANAGER"
    [] OTHER -> Undefined

\* a rendered <Navigate replace> moves the location
NavigateEffect ==
  /\ ~reloading
  /\ AppRoutes(path).type = "Navigate"
  /\ path' = AppRoutes(path).to
  /\ lastOp' = "navigate"
  /\ UNCHANGED <<localStorage, user, isLoading, restoreBranch, isAuthenticated, reloading,
                 lastLogin, loginCall, rejectedOp>>
  /\ UNCHANGED <<gatewayVars, uploadVars, pageVars>>

\* the user follows a link or the history to p
GoTo(p) ==
  /\ ~isLoading /\ ~reloading
  /\ AppRoutes(path).type # "Navigate"
  /\ p # path
  /\ path' = p
  /\ lastOp' = "goto"
  /\ UNCHANGED <<localStorage, user, isLoading, restoreBranch, isAuthenticated, reloading,
                 lastLogin, loginCall, rejectedOp>>
  /\ UNCHANGED <<gatewayVars, uploadVars, pageVars>>

(***************************************************************************)
(* LoginPage: the mutations' onSuccess                                     *)
(***************************************************************************)
LoginPageShown == ~isLoading /\ ~reloading /\ AppRoutes(path) = Content("LoginPage")

loginMutationOnSuccess(data, response) ==
  /\ LoginPageShown
  /\ LET auth == authApiLogin(data, response)
     IN /\ login(auth.token, auth.user)
        /\ path' = HomeOf(auth.user)
  /\ loginCall' = [data |-> data, response |-> response]
  /\ lastOp' = "login"
  /\ UNCHANGED <<gatewayVars, uploadVars, pageVars>>

registerMutationOnSuccess(data, response) ==
  /\ LoginPageShown
  /\ LET auth == authApiRegister(data, response)
     IN /\ login(auth.token, auth.user)
        /\ path' = HomeOf(auth.user)
  /\ loginCall' = NoCall
  /\ lastOp' = "login"
  /\ UNCHANGED <<gatewayVars, uploadVars, pageVars>>

(***************************************************************************)
(* IncidentDetailPage and ManagerDashboard: the RCA requests               *)
(***************************************************************************)
RcaStatuses == {"GENERATED", "REVIEWED", "APPROVED"}

\* canManage, were it true of every signed-in user
canManage_AnyUser(u) == u # Null

\* user?.role === 'MANAGER'
canManage(u) == RoleOf(u) = "MANAGER"

DetailPageShown ==
  ~isLoading /\ ~reloading /\ AppRoutes(path) = Content("IncidentDetailPage")

RcaRequest(op) == [op |-> op, role |-> RoleOf(user), status |-> rcaSuggestions]

\* the rca-suggestions query (enabled for a manager once the incident is under
\* review) runs, and the status the backend answers with is cached
rcaSuggestionsQuery(status) ==
  /\ DetailPageShown
  /\ canManage(user)
  /\ lastRca' = RcaRequest("getRcaSuggestions")
  /\ rcaSuggestions' = status
  /\ lastOp' = "rcaQuery"
  /\ UNCHANGED <<sessionVars, gatewayVars, uploadVars>>
  /\ UNCHANGED <<tokenExpired, grantCall, grantResult, imageVars>>

\* the Mark as Reviewed button, rendered while the cached status is GENERATED
reviewRcaClick ==
  /\ DetailPageShown
  /\ canManage(user)
  /\ rcaSuggestions = "GENERATED"
  /\ lastRca' = RcaRequest("reviewRcaSuggestions")
  /\ lastOp' = "rcaReview"
  /\ UNCHANGED <<sessionVars, gatewayVars, uploadVars>>
  /\ UNCHANGED <<rcaSuggestions, tokenExpired, grantCall, grantResult, imageVars>>

\* approveRcaClick, were the button rendered whenever suggestions are cached
approveRcaClick_AnyStatus ==
  /\ DetailPageShown
  /\ canManage(user)
  /\ rcaSuggestions # Undefined
  /\ lastRca' = RcaRequest("approveRcaSuggestions")
  /\ lastOp' = "rcaApprove"
  /\ UNCHANGED <<sessionVars, gatewayVars, uploadVars>>
  /\ UNCHANGED <<rcaSuggestions, tokenExpired, grantCall, grantResult, imageVars>>

\* the Approve & Finalize button, rendered while the cached status is REVIEWED
approveRcaClick ==
  /\ DetailPageShown
  /\ canManage(user)
  /\ rcaSuggestions = "REVIEWED"
  /\ lastRca' = RcaRequest("approveRcaSuggestions")
  /\ lastOp' = "rcaApprove"
  /\ UNCHANGED <<sessionVars, gatewayVars, uploadVars>>
  /\ UNCHANGED <<rcaSuggestions, tokenExpired, grantCall, grantResult, imageVars>>

\* ManagerDashboard's Generate RCA button: generateRcaMutation calls getRcaSuggestions
handleGenerateRca ==
  /\ ~isLoading /\ ~reloading
  /\ AppRoutes(path) = Content("ManagerDashboard")
  /\ lastRca' = RcaRequest("getRcaSuggestions")
  /\ lastOp' = "rcaGenerate"
  /\ UNCHANGED <<sessionVars, gatewayVars, uploadVars>>
  /\ UNCHANGED <<rcaSuggestions, tokenExpired, grantCall, grantResult, imageVars>>

(***************************************************************************)
(* storageApi                                                              *)
(***************************************************************************)
MaxFiles == 2                    \* files in one batch
MaxUploaded == 2                 \* URLs held by the two lists together

Files == {[name |-> "photo.JPG", type |-> "image/jpeg"],
          [name |-> "memo.mp3", type |-> "audio/mpeg"]}

RECURSIVE SeqsUpTo(_, _)
SeqsUpTo(S, n) ==
  IF n = 0 THEN {<<>>}
  ELSE LET shorter == SeqsUpTo(S, n - 1)
       IN shorter \cup {Append(q, x) : q \in {r \in shorter : Len(r) = n - 1}, x \in S}

FileLists == SeqsUpTo(Files, MaxFiles)

\* what the backend may answer to POST /s3/upload-url: each alias absent, empty or a URL
GrantResponses ==
  [uploadUrl : {"U"}, s3Url : {Undefined, "", "F1"}, fileUrl : {Undefined, "F1", "F2"},
   downloadUrl : {Undefined, "F2"}]

\* a || b, were the empty string truthy
Or_PresentOnly(a, b) == IF a # Undefined THEN a ELSE b

\* a || b of two optional strings: a when a is truthy, else b
Or(a, b) == IF a # Undefined /\ a # "" THEN a ELSE b

\* the result storageApi.getUploadUrl builds from the backend's response
getUploadUrl(data) ==
  [uploadUrl |-> data.uploadUrl,
   fileUrl |-> Or(Or(data.s3Url, data.fileUrl), data.downloadUrl)]

NoGrant == [uploadUrl |-> Undefined, fileUrl |-> Undefined]

\* getFileExtension, were the case of the name kept
getFileExtension_KeepsCase(fileName) == Str(pop(split(Chars(fileName), ".")))

\* fileName.split('.').pop()?.toLowerCase() || ''
getFileExtension(fileName) == Str(toLowerCase(pop(split(Chars(fileName), "."))))

\* mimeType.startsWith('image/') ? 'IMAGE' : 'AUDIO'
getFileType(mimeType) ==
  IF startsWith(Chars(mimeType), Chars("image/")) THEN "IMAGE" ELSE "AUDIO"

\* the body storageApi.getUploadUrl posts to /s3/upload-url for file
UploadUrlRequest(file) ==
  [fileType |-> getFileType(file.type), fileExtension |-> getFileExtension(file.name)]

NoBody == [fileType |-> "", fileExtension |-> ""]
NoPayload == [imageUrls |-> <<>>, audioUrls |-> <<>>, submitted |-> FALSE]

(***************************************************************************)
(* CreateIncidentPage: handleFileUpload, removeFile                        *)
(***************************************************************************)
NoError == "<no error>"
NoRemove == [type |-> "", index |-> 0, before |-> <<>>]
UPLOAD_FAILED == "Failed to upload files. Please try again."

\* handleFileUpload(fileList, type) up to its first await
handleFileUpload(fileList, type) ==
  /\ pc = "idle" /\ ~isUploading
  /\ path = "/worker/incidents/new"
  /\ Len(uploadedImages) + Len(uploadedAudio) + Len(fileList) <= MaxUploaded
  /\ lastOp' = "handleFileUpload"
  /\ IF Len(fileList) = 0
     THEN /\ lastRemove' = NoRemove
          /\ payload' = NoPayload
          /\ UNCHANGED <<uploadedImages, uploadedAudio, isUploading, rootError, files,
                         uploadType, fileIndex, pc, grant, taskState, setErrorCalls,
                         grantRequest>>
     ELSE /\ isUploading' = TRUE
          /\ files' = fileList
          /\ uploadType' = type
          /\ fileIndex' = 1
          /\ pc' = "grant"
          /\ taskState' = [j \in 1..Len(fileList) |-> "pending"]
          /\ setErrorCalls' = 0
          /\ grantRequest' = UploadUrlRequest(fileList[1])
          /\ lastRemove' = NoRemove
          /\ payload' = NoPayload
          /\ UNCHANGED <<uploadedImages, uploadedAudio, rootError, grant>>
  /\ UNCHANGED <<sessionVars, gatewayVars, pageVars, isPending>>

\* catchAndFinally, were the failure to reset the list of the batch's type
catchAndFinally_DropsUploaded ==
  /\ rootError' = UPLOAD_FAILED
  /\ setErrorCalls' = setErrorCalls + 1
  /\ isUploading' = FALSE
  /\ pc' = "idle"
  /\ taskState' = [taskState EXCEPT ![fileIndex] = "failed"]
  /\ grant' = NoGrant
  /\ lastRemove' = NoRemove
  /\ payload' = NoPayload
  /\ IF uploadType = "image"
     THEN uploadedImages' = <<>> /\ UNCHANGED uploadedAudio
     ELSE uploadedAudio' = <<>> /\ UNCHANGED uploadedImages
  /\ UNCHANGED <<files, uploadType, fileIndex, grantRequest>>

\* the catch and finally blocks: the loop is left, one generic message is set
catchAndFinally ==
  /\ rootError' = UPLOAD_FAILED
  /\ setErrorCalls' = setErrorCalls + 1
  /\ isUploading' = FALSE
  /\ pc' = "idle"
  /\ taskState' = [taskState EXCEPT ![fileIndex] = "failed"]
  /\ grant' = NoGrant
  /\ lastRemove' = NoRemove
  /\ payload' = NoPayload
  /\ UNCHANGED <<uploadedImages, uploadedAudio, files, uploadType, fileIndex,
                 grantRequest>>

\* GrantResolves, were the URL added to the list as soon as the grant arrives
GrantResolves_AppendsUrl(data) ==
  /\ pc = "grant"
  /\ grant' = getUploadUrl(data)
  /\ pc' = "transfer"
  /\ lastOp' = "grant"
  /\ lastRemove' = NoRemove
  /\ payload' = NoPayload
  /\ IF uploadType = "image"
     THEN /\ uploadedImages' = Append(uploadedImages, grant'.fileUrl)
          /\ UNCHANGED uploadedAudio
     ELSE /\ uploadedAudio' = Append(uploadedAudio, grant'.fileUrl)
          /\ UNCHANGED uploadedImages
  /\ UNCHANGED <<isUploading, rootError, files, uploadType,
                 fileIndex, taskState, setErrorCalls, grantRequest>>
  /\ UNCHANGED <<sessionVars, gatewayVars, pageVars, isPending>>

\* storageApi.getUploadUrl resolves with the grant built from the backend's response
GrantResolves(data) ==
  /\ pc = "grant"
  /\ grant' = getUploadUrl(data)
  /\ pc' = "transfer"
  /\ lastOp' = "grant"
  /\ lastRemove' = NoRemove
  /\ payload' = NoPayload
  /\ UNCHANGED <<uploadedImages, uploadedAudio, isUploading, rootError, files, uploadType,
                 fileIndex, taskState, setErrorCalls, grantRequest>>
  /\ UNCHANGED <<sessionVars, gatewayVars, pageVars, isPending>>

\* storageApi.getUploadUrl rejects
GrantRejects ==
  /\ pc = "grant"
  /\ catchAndFinally
  /\ lastOp' = "grantFailed"
  /\ UNCHANGED <<sessionVars, gatewayVars, pageVars, isPending>>

\* storageApi.uploadFile resolves: the URL is appended and the loop goes on or ends
TransferResolves ==
  /\ pc = "transfer"
  /\ IF uploadType = "image"
     THEN /\ uploadedImages' = Append(uploadedImages, grant.fileUrl)
          /\ UNCHANGED uploadedAudio
     ELSE /\ uploadedAudio' = Append(uploadedAudio, grant.fileUrl)
          /\ UNCHANGED uploadedImages
  /\ taskState' = [taskState EXCEPT ![fileIndex] = "uploaded"]
  /\ grant' = NoGrant
  /\ IF fileIndex < Len(files)
     THEN /\ fileIndex' = fileIndex + 1
          /\ pc' = "grant"
          /\ grantRequest' = UploadUrlRequest(files[fileIndex + 1])
          /\ UNCHANGED isUploading
     ELSE /\ pc' = "idle"
          /\ isUploading' = FALSE
          /\ UNCHANGED <<fileIndex, grantRequest>>
  /\ lastOp' = "transfer"
  /\ lastRemove' = NoRemove
  /\ payload' = NoPayload
  /\ UNCHANGED <<rootError, files, uploadType, setErrorCalls>>
  /\ UNCHANGED <<sessionVars, gatewayVars, pageVars, isPending>>

\* TransferRejects, were the grant's URL kept although the transfer failed
TransferRejects_AppendsUrl ==
  /\ pc = "transfer"
  /\ rootError' = UPLOAD_FAILED
  /\ setErrorCalls' = setErrorCalls + 1
  /\ isUploading' = FALSE
  /\ pc' = "idle"
  /\ taskState' = [taskState EXCEPT ![fileIndex] = "failed"]
  /\ grant' = NoGrant
  /\ lastRemove' = NoRemove
  /\ payload' = NoPayload
  /\ IF uploadType = "image"
     THEN /\ uploadedImages' = Append(uploadedImages, grant.fileUrl)
          /\ UNCHANGED uploadedAudio
     ELSE /\ uploadedAudio' = Append(uploadedAudio, grant.fileUrl)
          /\ UNCHANGED uploadedImages
  /\ lastOp' = "transferFailed"
  /\ UNCHANGED <<files, uploadType, fileIndex, grantRequest>>
  /\ UNCHANGED <<sessionVars, gatewayVars, pageVars, isPending>>

\* storageApi.uploadFile throws: the PUT answered a non-success status or did not answer
TransferRejects ==
  /\ pc = "transfer"
  /\ catchAndFinally
  /\ lastOp' = "transferFailed"
  /\ UNCHANGED <<sessionVars, gatewayVars, pageVars, isPending>>

\* prev.filter(u => u !== url)
Filter(list, url) == SelectSeq(list, LAMBDA u : u # url)

\* removeFile(url, type)
removeFile(url, type) ==
  /\ IF type = "image"
     THEN /\ uploadedImages' = Filter(uploadedImages, url)
          /\ UNCHANGED uploadedAudio
     ELSE /\ uploadedAudio' = Filter(uploadedAudio, url)
          /\ UNCHANGED uploadedImages

\* the remove button of entry index of the list of type
RemoveButtonClick(index, type) ==
  LET list == IF type = "image" THEN uploadedImages ELSE uploadedAudio
  IN /\ index \in DOMAIN list
     /\ path = "/worker/incidents/new"
     /\ removeFile(list[index], type)
     /\ lastRemove' = [type |-> type, index |-> index, before |-> list]
     /\ payload' = NoPayload
     /\ lastOp' = "removeFile"
     /\ UNCHANGED <<isUploading, rootError, files, uploadType, fileIndex, pc, grant,
                    taskState, setErrorCalls, grantRequest>>
     /\ UNCHANGED <<sessionVars, gatewayVars, pageVars, isPending>>

\* the form is submitted (the submit button is disabled while a batch runs or the
\* mutation is pending): onSubmit hands the two lists to createIncidentMutation
onSubmit ==
  /\ path = "/worker/incidents/new"
  /\ ~isUploading /\ ~isPending
  /\ payload' = [imageUrls |-> uploadedImages, audioUrls |-> uploadedAudio,
                 submitted |-> TRUE]
  /\ isPending' = TRUE
  /\ lastRemove' = NoRemove
  /\ lastOp' = "submit"
  /\ UNCHANGED <<uploadedImages, uploadedAudio, isUploading, rootError, files, uploadType,
                 fileIndex, pc, grant, taskState, setErrorCalls, grantRequest>>
  /\ UNCHANGED <<sessionVars, gatewayVars, pageVars>>

\* createIncidentMutation.onError: the error's message becomes the root error
createIncidentOnError(message) ==
  /\ isPending
  /\ isPending' = FALSE
  /\ rootError' = message
  /\ lastRemove' = NoRemove
  /\ payload' = NoPayload
  /\ lastOp' = "createFailed"
  /\ UNCHANGED <<uploadedImages, uploadedAudio, isUploading, files, uploadType,
                 fileIndex, pc, grant, taskState, setErrorCalls, grantRequest>>
  /\ UNCHANGED <<sessionVars, gatewayVars, pageVars>>

\* createIncidentMutation.onSuccess: navigate('/worker') unmounts the page, whose state
\* is discarded
createIncidentOnSuccess ==
  /\ isPending
  /\ path' = "/worker"
  /\ uploadedImages' = <<>>
  /\ uploadedAudio' = <<>>
  /\ isUploading' = FALSE
  /\ rootError' = NoError
  /\ files' = <<>>
  /\ uploadType' = "image"
  /\ fileIndex' = 1
  /\ pc' = "idle"
  /\ grant' = NoGrant
  /\ taskState' = <<>>
  /\ setErrorCalls' = 0
  /\ lastRemove' = NoRemove
  /\ grantRequest' = NoBody
  /\ payload' = NoPayload
  /\ isPending' = FALSE
  /\ lastOp' = "created"
  /\ UNCHANGED <<localStorage, user, isLoading, restoreBranch, isAuthenticated, reloading, lastLogin,
                 loginCall, rejectedOp>>
  /\ UNCHANGED <<gatewayVars, pageVars>>

\* the worker opens the report form from the dashboard: the page mounts anew
OpenCreateIncidentPage ==
  /\ path = "/worker"
  /\ ~isLoading /\ ~reloading
  /\ path' = "/worker/incidents/new"
  /\ lastOp' = "goto"
  /\ UNCHANGED <<localStorage, user, isLoading, restoreBranch, isAuthenticated, reloading, lastLogin,
                 loginCall, rejectedOp>>
  /\ UNCHANGED <<gatewayVars, uploadVars, pageVars>>

(***************************************************************************)
(* Specifications                                                          *)
(***************************************************************************)
InitUploadVars ==
  /\ uploadedImages = <<>>
  /\ uploadedAudio = <<>>
  /\ isUploading = FALSE
  /\ rootError = NoError
  /\ files = <<>>
  /\ uploadType = "image"
  /\ fileIndex = 1
  /\ pc = "idle"
  /\ grant = NoGrant
  /\ taskState = <<>>
  /\ setErrorCalls = 0
  /\ lastRemove = NoRemove
  /\ grantRequest = NoBody
  /\ payload = NoPayload
  /\ isPending = FALSE

InitGatewayVars ==
  /\ inflight = NoRequest
  /\ delivered = NoOutcome

NoRca == [op |-> NoOp, role |-> Undefined, status |-> Undefined]
NoGrantCall ==
  [fileName |-> "", mimeType |-> "",
   data |-> [uploadUrl |-> Undefined, s3Url |-> Undefined, fileUrl |-> Undefined,
             downloadUrl |-> Undefined]]
NoGrantResult == [request |-> NoBody, grant |-> NoGrant]

InitPageVars ==
  /\ rcaSuggestions = Undefined
  /\ lastRca = NoRca
  /\ tokenExpired = FALSE
  /\ grantCall = NoGrantCall
  /\ grantResult = NoGrantResult
  /\ src = ""
  /\ imageSrc = ""
  /\ loading = TRUE
  /\ error = FALSE
  /\ fetches = <<>>

\* the app is opened at any path, on any content of the two persisted entries
Init ==
  /\ localStorage \in InitialStores
  /\ user = Null
  /\ isLoading = TRUE
  /\ isAuthenticated = FALSE
  /\ path \in Paths
  /\ reloading = FALSE
  /\ lastOp = "load"
  /\ lastLogin = Null
  /\ loginCall = NoCall
  /\ restoreBranch = <<"none", "none">>
  /\ rejectedOp = NoOp
  /\ InitGatewayVars
  /\ InitUploadVars
  /\ InitPageVars

LoginData == [email : LoginEmails]
RegisterData == [name : RegisterNames, email : LoginEmails]
AuthResponses == [token : Tokens, role : Roles]

Next ==
  \/ restore
  \/ \E data \in LoginData, response \in AuthResponses :
       loginMutationOnSuccess(data, response)
  \/ \E data \in RegisterData, response \in AuthResponses :
       registerMutationOnSuccess(data, response)
  \/ logout
  \/ authApiLogout
  \/ \E op \in GatewayOps : Response401(op)
  \/ PageLoad
  \/ NavigateEffect
  \/ \E p \in Paths : GoTo(p)

Spec == Init /\ [][Next]_vars

\* CreateIncidentPage, mounted for a signed-in worker
Worker == Obj(FABRICATED_ID, "a", "a@x.com", "WORKER")

InitUpload ==
  /\ localStorage = setItem(setItem([k \in {} |-> ""], TOKEN_KEY, "T1"),
                            USER_KEY, JSONstringify(Worker))
  /\ user = Worker
  /\ isLoading = FALSE
  /\ isAuthenticated = TRUE
  /\ path = "/worker/incidents/new"
  /\ reloading = FALSE
  /\ lastOp = "restore"
  /\ lastLogin = Null
  /\ loginCall = NoCall
  /\ restoreBranch = <<"none", "restored">>
  /\ rejectedOp = NoOp
  /\ InitGatewayVars
  /\ InitUploadVars
  /\ InitPageVars

NextUpload ==
  \/ \E fileList \in FileLists, type \in {"image", "audio"} :
       handleFileUpload(fileList, type)
  \/ \E data \in GrantResponses : GrantResolves(data)
  \/ GrantRejects
  \/ TransferResolves
  \/ TransferRejects
  \/ \E index \in 1..MaxUploaded, type \in {"image", "audio"} :
       RemoveButtonClick(index, type)
  \/ onSubmit
  \/ \E message \in {"boom"} : createIncidentOnError(message)
  \/ createIncidentOnSuccess
  \/ OpenCreateIncidentPage

SpecUpload == InitUpload /\ [][NextUpload]_vars

\* the Gateway client under a page that issues calls, on any state of the token entry
GatewayStores ==
  LET none == [k \in {} |-> ""]
      withToken == {none} \cup {setItem(none, TOKEN_KEY, t) : t \in {"", "T1"}}
  IN withToken \cup {setItem(st, USER_KEY, JSONstringify(Worker)) : st \in withToken}

InitGateway ==
  /\ localStorage \in GatewayStores
  /\ user = Null
  /\ isLoading = TRUE
  /\ isAuthenticated = FALSE
  /\ path = "/worker"
  /\ reloading = FALSE
  /\ lastOp = "load"
  /\ lastLogin = Null
  /\ loginCall = NoCall
  /\ restoreBranch = <<"none", "none">>
  /\ rejectedOp = NoOp
  /\ InitGatewayVars
  /\ InitUploadVars
  /\ InitPageVars

NextGateway ==
  \/ restore
  \/ \E call \in GatewayCalls : SendRequest(call)
  \/ \E resp \in Responses : ReceiveResponse(resp)
  \/ RetryRequest
  \/ logout
  \/ PageLoad

SpecGateway == InitGateway /\ [][NextGateway]_vars

\* the pages that issue RCA requests, opened at any path by nobody, a worker or a manager
Manager == Obj(FABRICATED_ID, "b", "b@y.org", "MANAGER")

RcaStores ==
  LET none == [k \in {} |-> ""]
  IN {none} \cup {setItem(setItem(none, TOKEN_KEY, "T1"), USER_KEY, JSONstringify(u)) :
                   u \in {Worker, Manager}}

InitRca ==
  /\ localStorage \in RcaStores
  /\ user = Null
  /\ isLoading = TRUE
  /\ isAuthenticated = FALSE
  /\ path \in Paths
  /\ reloading = FALSE
  /\ lastOp = "load"
  /\ lastLogin = Null
  /\ loginCall = NoCall
  /\ restoreBranch = <<"none", "none">>
  /\ rejectedOp = NoOp
  /\ InitGatewayVars
  /\ InitUploadVars
  /\ InitPageVars

NextRca ==
  \/ restore
  \/ \E data \in LoginData, response \in AuthResponses :
       loginMutationOnSuccess(data, response)
  \/ logout
  \/ PageLoad
  \/ NavigateEffect
  \/ \E p \in Paths : GoTo(p)
  \/ \E status \in RcaStatuses : rcaSuggestionsQuery(status)
  \/ reviewRcaClick
  \/ approveRcaClick
  \/ handleGenerateRca

SpecRca == InitRca /\ [][NextRca]_vars

\* storageApi.getUploadUrl as a function of its arguments and of the backend's response
GrantFileNames == {"photo.JPG", "memo.mp3", "README", "a.tar.GZ", "notes."}
GrantMimeTypes == {"image/jpeg", "audio/mpeg"}
GrantData ==
  [uploadUrl : {"U"}, s3Url : {Undefined, "", "F1"}, fileUrl : {Undefined, "", "F2"},
   downloadUrl : {Undefined, "", "F3"}]

getUploadUrlCall ==
  /\ grantResult = NoGrantResult
  /\ grantResult' =
       [request |-> UploadUrlRequest([name |-> grantCall.fileName,
                                      type |-> grantCall.mimeType]),
        grant |-> getUploadUrl(grantCall.data)]
  /\ lastOp' = "getUploadUrl"
  /\ UNCHANGED <<sessionVars, gatewayVars, uploadVars>>
  /\ UNCHANGED <<rcaVars, tokenExpired, grantCall, imageVars>>

InitGrant ==
  /\ localStorage = [k \in {} |-> ""]
  /\ user = Null
  /\ isLoading = TRUE
  /\ isAuthenticated = FALSE
  /\ path = "/worker/incidents/new"
  /\ reloading = FALSE
  /\ lastOp = "load"
  /\ lastLogin = Null
  /\ loginCall = NoCall
  /\ restoreBranch = <<"none", "none">>
  /\ rejectedOp = NoOp
  /\ InitGatewayVars
  /\ InitUploadVars
  /\ rcaSuggestions = Undefined /\ lastRca = NoRca /\ tokenExpired = FALSE
  /\ grantCall \in [fileName : GrantFileNames, mimeType : GrantMimeTypes, data : GrantData]
  /\ grantResult = NoGrantResult
  /\ src = "" /\ imageSrc = "" /\ loading = TRUE /\ error = FALSE /\ fetches = <<>>

NextGrant ==
  \/ getUploadUrlCall

SpecGrant == InitGrant /\ [][NextGrant]_vars

\* the router from the first render on: the restore effect and the rendered <Navigate>s
\* run by themselves; links are followed, and the session is opened and closed, when
\* the user chooses
NextNav ==
  \/ restore
  \/ NavigateEffect
  \/ \E p \in Paths : GoTo(p)
  \/ \E data \in LoginData, response \in AuthResponses :
       loginMutationOnSuccess(data, response)
  \/ logout

SpecNav ==
  /\ InitRca
  /\ [][NextNav]_vars
  /\ WF_vars(restore)
  /\ WF_vars(NavigateEffect)

(***************************************************************************)
(* AuthenticatedImage                                                      *)
(***************************************************************************)
MaxFetches == 2

\* the src values the parent passes: paths relative to the API base, which fetchImage
\* requests as they are
ImageSrcs == {"/s3/image-proxy/1.jpg", "/s3/image-proxy/2.jpg", "/s3/image-proxy/3.jpg"}

\* reader.result for the blob that a GET of requestUrl answers with
DataUrl(requestUrl) ==
  CASE requestUrl = "/s3/image-proxy/1.jpg" -> "data:image/jpeg;base64,1"
    [] requestUrl = "/s3/image-proxy/2.jpg" -> "data:image/jpeg;base64,2"
    [] requestUrl = "/s3/image-proxy/3.jpg" -> "data:image/jpeg;base64,3"
    [] OTHER -> ""

\* the fetches in flight without the i-th
Settle(q, i) == SubSeq(q, 1, i - 1) \o SubSeq(q, i + 1, Len(q))

\* the component is rendered with a new src: the effect runs and, for a non-empty src,
\* fetchImage sets loading, clears error and sends the GET; nothing cancels an earlier one
SrcChanges(s) ==
  /\ s # src
  /\ Len(fetches) < MaxFetches
  /\ src' = s
  /\ loading' = TRUE
  /\ error' = FALSE
  /\ fetches' = Append(fetches, s)
  /\ lastOp' = "srcChanges"
  /\ UNCHANGED imageSrc
  /\ UNCHANGED <<sessionVars, gatewayVars, uploadVars>>
  /\ UNCHANGED <<rcaVars, tokenExpired, grantCall, grantResult>>

\* the GET of the i-th fetch in flight is answered and its blob read: onloadend
FetchResolves(i) ==
  /\ i \in DOMAIN fetches
  /\ imageSrc' = DataUrl(fetches[i])
  /\ loading' = FALSE
  /\ fetches' = Settle(fetches, i)
  /\ lastOp' = "fetchResolves"
  /\ UNCHANGED <<src, error>>
  /\ UNCHANGED <<sessionVars, gatewayVars, uploadVars>>
  /\ UNCHANGED <<rcaVars, tokenExpired, grantCall, grantResult>>

\* the GET of the i-th fetch in flight fails: the catch block
FetchRejects(i) ==
  /\ i \in DOMAIN fetches
  /\ error' = TRUE
  /\ loading' = FALSE
  /\ fetches' = Settle(fetches, i)
  /\ lastOp' = "fetchRejects"
  /\ UNCHANGED <<src, imageSrc>>
  /\ UNCHANGED <<sessionVars, gatewayVars, uploadVars>>
  /\ UNCHANGED <<rcaVars, tokenExpired, grantCall, grantResult>>

InitImage ==
  /\ localStorage = [k \in {} |-> ""]
  /\ user = Null
  /\ isLoading = TRUE
  /\ isAuthenticated = FALSE
  /\ path = "/worker/incidents/:id"
  /\ reloading = FALSE
  /\ lastOp = "load"
  /\ lastLogin = Null
  /\ loginCall = NoCall
  /\ restoreBranch = <<"none", "none">>
  /\ rejectedOp = NoOp
  /\ InitGatewayVars
  /\ InitUploadVars
  /\ InitPageVars

NextImage ==
  \/ \E s \in ImageSrcs : SrcChanges(s)
  \/ \E i \in 1..MaxFetches : FetchResolves(i)
  \/ \E i \in 1..MaxFetches : FetchRejects(i)

SpecImage == InitImage /\ [][NextImage]_vars

\* a signed-in session whose token the backend stops accepting.  Nothing in the client
\* reads the token's lifetime: the expiry is the backend's step, and the client learns of
\* it only from the 401 that answers a request carrying the token.
TokenExpires ==
  /\ ~tokenExpired
  /\ TruthyItem(localStorage, TOKEN_KEY)
  /\ tokenExpired' = TRUE
  /\ lastOp' = "expire"
  /\ UNCHANGED <<sessionVars, gatewayVars, uploadVars>>
  /\ UNCHANGED <<rcaVars, grantCall, grantResult, imageVars>>

\* a request sent with the expired token is answered with 401
ExpiredTokenRejected(op) ==
  /\ tokenExpired
  /\ ~reloading
  /\ TruthyItem(localStorage, TOKEN_KEY)
  /\ Response401(op)

\* the move to /login that the 401 handler has asked the browser for
PendingLoad == reloading /\ PageLoad

InitExpiry ==
  /\ InitRca
  /\ TruthyItem(localStorage, TOKEN_KEY)

NextExpiry ==
  \/ restore
  \/ NavigateEffect
  \/ PageLoad
  \/ \E p \in Paths : GoTo(p)
  \/ logout
  \/ TokenExpires
  \/ \E op \in GatewayOps : ExpiredTokenRejected(op)

\* the effects and the pending document load run without the user; requests, navigation
\* and logout wait for the user
SpecExpiry ==
  /\ InitExpiry
  /\ [][NextExpiry]_vars
  /\ WF_vars(restore)
  /\ WF_vars(NavigateEffect)
  /\ WF_vars(PendingLoad)

(***************************************************************************)
(* Properties of the session lifecycle and of the upload workflow          *)
(***************************************************************************)
NoEntries(store) == ~hasItem(store, TOKEN_KEY) /\ ~hasItem(store, USER_KEY)

\* a persisted pair with an entry missing, or whose user object lacks id, email or role
IncompletePair(store) ==
  \/ ~hasItem(store, TOKEN_KEY)
  \/ ~hasItem(store, USER_KEY)
  \/ /\ store[USER_KEY].kind = "object"
     /\ \E k \in {"id", "email", "role"} : ~Has(JSONparse(store[USER_KEY]), k)

\* C1: the startup restore, run on a persisted pair with an entry missing or a user
\* object lacking id, email or role, leaves user = null and removes both entries.
C1_RestoreFailsClosed ==
  [][(isLoading /\ lastOp' = "restore" /\ IncompletePair(localStorage))
       => (user' = Null /\ NoEntries(localStorage'))]_vars

\* C2: when a file of the batch fails at the transfer step, every other file of the
\* batch, those after it included, has its URL appended.
C2_SiblingsSurvive ==
  lastOp = "transferFailed"
    => \A j \in (DOMAIN taskState) \ {fileIndex} : taskState[j] = "uploaded"

\* C3: once a 401 has been handled, for whichever Gateway call, both persisted entries
\* are absent, and when the move to /login has happened the in-memory session is
\* cleared and the only page shown is the login page.
C3_UnauthorizedClearsSession ==
  rejectedOp # NoOp
    => /\ NoEntries(localStorage)
       /\ ~reloading => /\ user = Null
                        /\ ~isAuthenticated
                        /\ AppRoutes(path).type = "Content"
                             => AppRoutes(path).page = "LoginPage"

C3_Witness ==
  /\ rejectedOp = "getUploadUrl"
  /\ ~reloading /\ ~isLoading
  /\ path = "/login"
  /\ AppRoutes(path) = Content("LoginPage")

\* C4: after login(token, identity), a restore in a fresh process (the persisted
\* entries untouched in between) yields an authenticated session whose identity
\* equals the one passed to login.
C4_LoginRestoreRoundTrip ==
  (lastOp = "restore" /\ lastLogin # Null)
    => (user = lastLogin /\ isAuthenticated)

C4_Witness ==
  /\ lastOp = "restore"
  /\ lastLogin # Null
  /\ user = lastLogin
  /\ user["name"] = "Al"

RoleHome(role) == CASE role = "WORKER" -> "/worker" [] role = "MANAGER" -> "/manager"

\* C5: on a route that requires a role, once restore has run, an unauthenticated
\* access is redirected to /login, an authenticated user of the other role is
\* redirected to the home of the user's own role, and the protected content is
\* rendered only for an authenticated user whose role is the required one.
C5_RouteGuard ==
  LET required == RequiredRole(path)
      element == AppRoutes(path)
      signedIn == isAuthenticated /\ user # Null
  IN required # Undefined
       => /\ element.type = "Content"
               => (~isLoading /\ signedIn /\ RoleOf(user) = required)
          /\ (~isLoading /\ ~signedIn) => element = NavigateTo("/login")
          /\ (~isLoading /\ signedIn /\ RoleOf(user) \in Roles \ {required})
               => element = NavigateTo(RoleHome(RoleOf(user)))

C5_Witness ==
  /\ ~isLoading
  /\ isAuthenticated
  /\ RoleOf(user) = "WORKER"
  /\ path = "/manager/incidents/:id"
  /\ AppRoutes(path) = NavigateTo("/worker")

\* C6: the uploading flag is true while a batch runs, and when it is false no task of
\* the batch is still pending.
C6_FlagFallsAfterAllTasks ==
  /\ pc # "idle" => isUploading
  /\ ~isUploading => \A j \in DOMAIN taskState : taskState[j] # "pending"

LoggedOut == user = Null /\ NoEntries(localStorage)

\* C7: logout() leaves user = null and both persisted entries absent, whatever the
\* state before; called when already logged out it changes nothing.
C7_LogoutClears ==
  [][lastOp' = "logout"
       => /\ user' = Null
          /\ NoEntries(localStorage')
          /\ ~isAuthenticated'
          /\ LoggedOut => UNCHANGED sessionVars]_vars

C7_Witness ==
  /\ lastOp = "logout"
  /\ LoggedOut
  /\ path = "/worker"

\* the list without its entry at index
RemoveAt(list, index) ==
  SubSeq(list, 1, index - 1) \o SubSeq(list, index + 1, Len(list))

\* C8: a click on the remove button of an entry removes that entry and no other, the
\* remaining entries keeping their order.
C8_RemovesOneEntry ==
  lastOp = "removeFile"
    => (IF lastRemove.type = "image" THEN uploadedImages ELSE uploadedAudio)
         = RemoveAt(lastRemove.before, lastRemove.index)

\* C9: isAuthenticated, as the consumers of the context read it, is true exactly when
\* an in-memory user exists and the persisted token entry is present.
C9_IsAuthenticatedTracksToken ==
  isAuthenticated <=> (user # Null /\ hasItem(localStorage, TOKEN_KEY))

\* a step in which a task of the batch fails
TaskFails ==
  \E j \in (DOMAIN taskState) \cap (DOMAIN taskState') :
    taskState[j] = "pending" /\ taskState'[j] = "failed"

\* C10: a batch with a failure sets the root error exactly once, to the one generic
\* message, and the failure leaves every URL already in the lists where it is.
C10_OneGenericError ==
  /\ [](/\ setErrorCalls <= 1
        /\ (\E j \in DOMAIN taskState : taskState[j] = "failed") <=> setErrorCalls = 1
        /\ (setErrorCalls = 1 /\ lastOp \in {"grantFailed", "transferFailed"})
             => rootError = UPLOAD_FAILED)
  /\ [][TaskFails => UNCHANGED <<uploadedImages, uploadedAudio>>]_vars

C10_Witness ==
  /\ setErrorCalls = 1
  /\ rootError = UPLOAD_FAILED
  /\ Len(taskState) = 2
  /\ taskState[1] = "uploaded"
  /\ taskState[2] = "failed"
  /\ Len(uploadedImages) = 1

(***************************************************************************)
(* Properties of the Gateway client                                        *)
(***************************************************************************)
\* the request that is out left in this very step, so localStorage is what it was then
JustIssued == inflight.state = "sent" /\ lastOp \in {"request", "retry"}

\* C11: a request, first attempt or retry, leaves with Authorization: Bearer <token>
\* when a non-empty token is persisted as it is issued, and with no Authorization
\* header when the token entry is absent or empty.
C11_BearerFromPersistedToken ==
  JustIssued
    => IF hasItem(localStorage, TOKEN_KEY) /\ localStorage[TOKEN_KEY] # ""
       THEN /\ Has(inflight.headers, "Authorization")
            /\ inflight.headers["Authorization"] = <<"Bearer ", localStorage[TOKEN_KEY]>>
       ELSE ~Has(inflight.headers, "Authorization")

C11_Witness ==
  /\ JustIssued
  /\ inflight.op = "createIncident"
  /\ inflight.headers = [h \in {"Authorization"} |-> <<"Bearer ", "T1">>]

\* C12 as stated: no failed request is sent again; every failure reaches the caller
\* after a single attempt.
C12_NeverResent ==
  /\ inflight.attempt <= 1
  /\ delivered.attempts <= 1

\* C12: a failed mutation or direct call reaches the caller after a single attempt; a
\* failed query is sent again by the query client QUERY_RETRY times, and only then
\* does the failure reach the caller.
C12_ResentOnlyByQueryRetry ==
  /\ inflight.attempt <= (IF inflight.kind = "query" THEN 1 + QUERY_RETRY ELSE 1)
  /\ inflight.state = "retryWait" => inflight.kind = "query"
  /\ delivered.kind \in {"mutation", "direct"} => delivered.attempts = 1
  /\ (delivered.kind = "query" /\ delivered.outcome.threw)
       => delivered.attempts = 1 + QUERY_RETRY

C12_Witness ==
  /\ delivered.kind = "query"
  /\ delivered.outcome.threw
  /\ delivered.attempts = 2
  /\ delivered.response.status = 500

\* a call whose caller receives what the response interceptor produced
Surfaced == delivered.op \notin {NoOp, "fileExists"}

\* C13: a non-success response other than 401 and 429 reaches the caller as an error
\* whose message is the server's message, or the default message when the server gives
\* none, a response without a body included.
C13_ServerOrDefaultMessage ==
  (Surfaced /\ delivered.response.status = 500)
    => /\ delivered.outcome.threw
       /\ delivered.outcome.message =
            <<IF TruthyProp(delivered.response.data, "message")
              THEN delivered.response.data["message"]
              ELSE DEFAULT_MESSAGE>>

\* the shape of the error thrown for a rate limit
IsRateLimit(outcome) ==
  /\ outcome.threw
  /\ Len(outcome.message) = 5
  /\ outcome.message[1] = "Rate limit exceeded: "
  /\ outcome.message[3] = ". Try again in "
  /\ outcome.message[5] = " seconds."

\* C14: the caller receives the rate-limit error for a 429 and for no other response,
\* and that error carries the body's message and its retry-after seconds.
C14_RateLimitDistinguished ==
  Surfaced
    => /\ IsRateLimit(delivered.outcome) <=> delivered.response.status = 429
       /\ (delivered.response.status = 429 /\ Has(delivered.response.data, "message"))
            => delivered.outcome.message[2] = delivered.response.data["message"]
       /\ (delivered.response.status = 429
             /\ Has(delivered.response.data, "retryAfterSeconds")
             /\ delivered.response.data["retryAfterSeconds"] = 30)
            => delivered.outcome.message[4] = "30"

C14_Witness ==
  /\ delivered.op = "createIncident"
  /\ delivered.response.status = 429
  /\ delivered.outcome.message =
       <<"Rate limit exceeded: ", "boom", ". Try again in ", "30", " seconds.">>

\* C17: fileExists never throws: it returns the backend's exists value when the call
\* succeeds and false when the call fails, whether no response arrived or the
\* response was a non-success one.
C17_FileExistsNeverThrows ==
  delivered.op = "fileExists"
    => /\ ~delivered.outcome.threw
       /\ delivered.outcome.data["returned"] =
            (IF delivered.response.status = 200
             THEN delivered.response.data["exists"] ELSE FALSE)

C17_Witness ==
  /\ delivered.op = "fileExists"
  /\ delivered.response.status = 0
  /\ ~delivered.outcome.threw
  /\ delivered.outcome.data["returned"] = FALSE

(***************************************************************************)
(* Further properties of the session lifecycle                             *)
(***************************************************************************)
BothOrNeither(store) == hasItem(store, TOKEN_KEY) <=> hasItem(store, USER_KEY)

IsLocalPart(n, email) ==
  LET cs == Chars(email)
  IN \E k \in DOMAIN cs :
       /\ cs[k] = "@"
       /\ \A j \in 1..(k - 1) : cs[j] # "@"
       /\ SubSeq(cs, 1, k - 1) = Chars(n)

\* C20: a login with email E that the backend answers with {token: T, role: R} leaves
\* the session {token: T, user: {id: 1, name: the part of E before '@', email: E,
\* role: R}} both in memory and in the two persisted entries.
C20_LoginBuildsSession ==
  (lastOp = "login" /\ loginCall # NoCall)
    => LET E == loginCall.data.email
           T == loginCall.response.token
           R == loginCall.response.role
       IN /\ DOMAIN user = {"id", "name", "email", "role"}
          /\ user["id"] = 1
          /\ IsLocalPart(user["name"], E)
          /\ user["email"] = E
          /\ user["role"] = R
          /\ hasItem(localStorage, TOKEN_KEY) /\ localStorage[TOKEN_KEY] = T
          /\ hasItem(localStorage, USER_KEY)
          /\ ~ParseThrows(localStorage[USER_KEY])
          /\ JSONparse(localStorage[USER_KEY]) = user

C20_Witness ==
  /\ lastOp = "login"
  /\ loginCall = [data |-> [email |-> "b@y.org"],
                  response |-> [token |-> "T2", role |-> "MANAGER"]]
  /\ user["name"] = "b"
  /\ localStorage[TOKEN_KEY] = "T2"

(***************************************************************************)
(* Further properties of the upload workflow                               *)
(***************************************************************************)
\* how a list may change in a step of the batch of type: by the completed transfer
\* appending its grant's URL, by a remove button dropping a URL, or by the page going
ListStep(list, listAfter, type) ==
  listAfter # list
    => \/ /\ lastOp' = "transfer"
          /\ pc = "transfer" /\ uploadType = type
          /\ listAfter = Append(list, grant.fileUrl)
       \/ /\ lastOp' = "removeFile"
          /\ \E i \in DOMAIN list :
               /\ listAfter = Filter(list, list[i])
               /\ \A k \in DOMAIN listAfter : listAfter[k] # list[i]
       \/ /\ lastOp' = "created"
          /\ listAfter = <<>>

\* C18: a submission hands over exactly the two lists, at a time when no transfer is
\* under way, and a URL enters a list only when its file's transfer has completed and
\* leaves it when removed: no URL of a failed or pending task is submitted.
C18_OnlyCompletedUrlsSubmitted ==
  /\ [](lastOp = "submit"
          => /\ payload.submitted
             /\ payload.imageUrls = uploadedImages
             /\ payload.audioUrls = uploadedAudio
             /\ pc = "idle" /\ ~isUploading /\ grant = NoGrant)
  /\ [][/\ ListStep(uploadedImages, uploadedImages', "image")
         /\ ListStep(uploadedAudio, uploadedAudio', "audio")]_vars

C18_Witness ==
  /\ lastOp = "submit"
  /\ payload.imageUrls = <<"F1">>
  /\ payload.audioUrls = <<>>
  /\ \E j \in DOMAIN taskState : taskState[j] = "failed"

\* C19: the grant request for a file carries fileType IMAGE when its MIME type starts
\* with image/ and AUDIO otherwise, and the lower-cased extension of its name; when
\* the transfer of a file uploaded as an image succeeds, the grant's fileUrl is
\* appended to the image list.
C19_ImageGrantRequest ==
  /\ [](pc \in {"grant", "transfer"}
          => LET file == files[fileIndex]
             IN /\ file.type = "image/jpeg" => grantRequest.fileType = "IMAGE"
                /\ file.type = "audio/mpeg" => grantRequest.fileType = "AUDIO"
                /\ file.name = "photo.JPG" => grantRequest.fileExtension = "jpg"
                /\ file.name = "memo.mp3" => grantRequest.fileExtension = "mp3")
  /\ [][(pc = "transfer" /\ lastOp' = "transfer" /\ uploadType = "image")
          => /\ uploadedImages' = Append(uploadedImages, grant.fileUrl)
             /\ UNCHANGED uploadedAudio]_vars

C19_Witness ==
  /\ lastOp = "transfer"
  /\ uploadType = "image"
  /\ files = <<[name |-> "photo.JPG", type |-> "image/jpeg"]>>
  /\ grantRequest = [fileType |-> "IMAGE", fileExtension |-> "jpg"]
  /\ uploadedImages = <<"F1">>

\* a step in which one of the two lists gets longer
ListGrows ==
  \/ Len(uploadedImages') > Len(uploadedImages)
  \/ Len(uploadedAudio') > Len(uploadedAudio)

\* C24: per file the steps run in order: a transfer is under way only with a grant in
\* hand and starts only when the grant request resolves; a list grows only in the step
\* in which the file's transfer succeeds; a failing grant or transfer adds nothing.
C24_GrantTransferAppendInOrder ==
  /\ [](pc = "transfer" => (grant # NoGrant /\ grant.uploadUrl # Undefined))
  /\ [][/\ (pc # "transfer" /\ pc' = "transfer") => (pc = "grant" /\ lastOp' = "grant")
        /\ ListGrows => /\ pc = "transfer" /\ lastOp' = "transfer"
                        /\ taskState[fileIndex] = "pending"
                        /\ taskState'[fileIndex] = "uploaded"
        /\ lastOp' \in {"grantFailed", "transferFailed"}
             => /\ UNCHANGED <<uploadedImages, uploadedAudio>>
                /\ taskState'[fileIndex] = "failed"]_vars

C24_Witness ==
  /\ lastOp = "transferFailed"
  /\ uploadType = "audio"
  /\ taskState = <<"uploaded", "failed">>
  /\ uploadedAudio = <<"F2">>
  /\ uploadedImages = <<>>

(***************************************************************************)
(* Properties of storageApi.getUploadUrl                                   *)
(***************************************************************************)
\* the characters after the last "." of cs, and none when cs holds no "."
RECURSIVE AfterFinalDot(_)
AfterFinalDot(cs) ==
  IF \A i \in DOMAIN cs : cs[i] # "." THEN <<>>
  ELSE LET tail == SubSeq(cs, 2, Len(cs))
       IN IF \E i \in DOMAIN tail : tail[i] = "." THEN AfterFinalDot(tail)
          ELSE IF cs[1] = "." THEN tail ELSE AfterFinalDot(tail)

\* C25: the extension sent with the grant request is the lower-cased text after the
\* final "." of the file name, and the empty string when the name holds no ".".
C25_ExtensionAfterFinalDot ==
  grantResult # NoGrantResult
    => grantResult.request.fileExtension
         = Str(toLowerCase(AfterFinalDot(Chars(grantCall.fileName))))

Aliases(data) == <<data.s3Url, data.fileUrl, data.downloadUrl>>

NonEmpty(v) == v # Undefined /\ v # ""

\* C26: the grant's fileUrl is the first of s3Url, fileUrl, downloadUrl that is present
\* and non-empty; when none is, the grant carries no URL.
C26_FirstNonEmptyAlias ==
  grantResult # NoGrantResult
    => LET a == Aliases(grantCall.data)
       IN IF \E i \in 1..3 : NonEmpty(a[i])
          THEN LET first == CHOOSE i \in 1..3 :
                              NonEmpty(a[i]) /\ \A j \in 1..(i - 1) : ~NonEmpty(a[j])
               IN grantResult.grant.fileUrl = a[first]
          ELSE ~NonEmpty(grantResult.grant.fileUrl)

C26_Witness ==
  /\ lastOp = "getUploadUrl"
  /\ grantCall.data.s3Url = ""
  /\ grantCall.data.fileUrl = Undefined
  /\ grantCall.data.downloadUrl = "F3"
  /\ grantResult.grant.fileUrl = "F3"

(***************************************************************************)
(* Properties of the RCA requests                                          *)
(***************************************************************************)
\* C21: every RCA request (fetching or generating suggestions, marking reviewed,
\* approving) is issued while the signed-in user's role is MANAGER.
C21_RcaOnlyForManager ==
  lastRca # NoRca => lastRca.role = "MANAGER"

C21_Witness ==
  /\ lastRca.op = "reviewRcaSuggestions"
  /\ lastRca.role = "MANAGER"
  /\ path = "/worker"
  /\ RoleOf(user) = "WORKER"

\* C22: the review request is sent only while the cached status is GENERATED and the
\* approve request only while it is REVIEWED.
C22_ReviewThenApprove ==
  /\ lastRca.op = "reviewRcaSuggestions" => lastRca.status = "GENERATED"
  /\ lastRca.op = "approveRcaSuggestions" => lastRca.status = "REVIEWED"

C22_Witness ==
  /\ lastOp = "rcaApprove"
  /\ lastRca = [op |-> "approveRcaSuggestions", role |-> "MANAGER", status |-> "REVIEWED"]

(***************************************************************************)
(* Properties of the session after the token expires                       *)
(***************************************************************************)
SessionEnded == user = Null /\ ~hasItem(localStorage, TOKEN_KEY)

\* C23: once the token has expired, the session eventually holds a refreshed token or
\* is logged out.
C23_ExpiredTokenRefreshedOrLoggedOut ==
  tokenExpired ~> (~tokenExpired \/ SessionEnded)

(***************************************************************************)
(* Properties of the writers of the persisted session                      *)
(***************************************************************************)
\* C27: the persisted entries change only in a step of the Session Manager's login,
\* logout or restore, and after such a change the in-memory user exists exactly when
\* the persisted token does.
C27_OnlySessionManagerWrites ==
  [][localStorage' # localStorage
       => /\ lastOp' \in {"login", "logout", "restore"}
          /\ (user' # Null) <=> hasItem(localStorage', TOKEN_KEY)]_vars

(***************************************************************************)
(* Properties of the router                                                *)
(***************************************************************************)
\* the role of the persisted session, Undefined when nothing is persisted
PersistedRole ==
  IF TruthyItem(localStorage, TOKEN_KEY) /\ hasItem(localStorage, USER_KEY)
  THEN RoleOf(JSONparse(localStorage[USER_KEY]))
  ELSE Undefined

\* the restore is over and the route renders a page, not a redirect
AtRest == ~isLoading /\ AppRoutes(path).type = "Content"

\* C28: from any start path navigation comes to rest again and again; with a persisted
\* session of role R it rests only on routes of role R, never on /login; with nothing
\* persisted it rests only on /login; and while the restore is loading a protected
\* route renders the spinner, not a redirect.
C28_SettlesOnRoleRoute ==
  /\ []<>AtRest
  /\ []((AtRest /\ PersistedRole \in Roles)
          => (RequiredRole(path) = PersistedRole /\ path # "/login"))
  /\ []((AtRest /\ NoEntries(localStorage)) => path = "/login")
  /\ []((isLoading /\ RequiredRole(path) # Undefined) => AppRoutes(path) = Spinner)

C28_Witness ==
  /\ AtRest
  /\ lastOp = "navigate"
  /\ PersistedRole = "MANAGER"
  /\ path = "/manager"
  /\ restoreBranch[2] = "restored"

(***************************************************************************)
(* Properties of the entries of the uploaded lists                         *)
(***************************************************************************)
\* C29: every entry of the two uploaded lists is a non-empty URL: a grant whose
\* response carries none of s3Url, fileUrl, downloadUrl adds no entry.
C29_EntriesAreUrls ==
  /\ \A i \in DOMAIN uploadedImages : NonEmpty(uploadedImages[i])
  /\ \A i \in DOMAIN uploadedAudio : NonEmpty(uploadedAudio[i])

(***************************************************************************)
(* Properties of AuthenticatedImage                                        *)
(***************************************************************************)
\* C30: once no fetch is in flight, the image shown is the one fetched for the current
\* src, in whatever order the responses arrived.
C30_LatestSrcDisplayed ==
  (fetches = <<>> /\ src # "" /\ ~loading /\ ~error) => imageSrc = DataUrl(src)
====
